---- MODULE Spec2Model ----
(***************************************************************************)
(* Ingestion pipeline of the case repository backend: the in-memory OCR    *)
(* job queue (SimpleQueueService), the per-document run of                 *)
(* OcrService.processDocument with its page store, the scheduled and       *)
(* startup batches, and the reprocess endpoint of OcrController.           *)
(*                                                                         *)
(* Node.js runs one handler at a time and switches only at an `await`.     *)
(* Every action below is one such slice: the effect of the awaited store   *)
(* or file operation, then the synchronous code up to the next await.      *)
(***************************************************************************)
EXTENDS Integers, Sequences, FiniteSets, TLC

\* ---- bounds of the model ----
MaxPages == 1        \* longest file when handlers overlap, in pages
SerialPages == 2     \* longest file when handlers run one after another
MaxJobs == 3         \* addJob calls in one behaviour
SerialJobs == 2      \* addJob calls when handlers run one after another
OverlapJobs == 2     \* addJob calls when every entry point is open
MaxSched == 1        \* cron firings in one behaviour
MaxReprocess == 2    \* reprocess requests in one behaviour
MaxHandlers == 2     \* handlers in flight at the same time
MaxOutages == 1      \* store outages in one behaviour
SearchPages == 2     \* longest file behind the page store that is searched
MaxLimit == 2        \* largest limit a search is called with
MaxTerms == 2        \* words in a query whose snippet is cut
MaxOccurrences == 2  \* words placed in a text whose snippet is cut
MaxBatch == 2        \* texts in one call of generateEmbeddingsBatch
MaxTextLen == 4      \* longest text that is cut into chunks
MaxChunkSize == 3    \* largest maxChunkSize and overlap of a chunkText call
MaxSyncs == 3        \* sync requests and cron firings in one behaviour
MaxSyncPages == 2    \* pages of appeals the remote system serves to one sync run
MaxRawLen == 5       \* longest extracted text that is cleaned

\* ---- program constants ----
batchSize == 5

Docs == {"d1", "d2"}

\* createdAt order of the documents (order: { createdAt: 'ASC' })
DocOrder == <<"d1", "d2">>

\* What one page of a file does to the pipeline:
\*   ok       text longer than 50 characters, embedded and stored
\*   short    text of at most 50 characters: no embedding is requested
\*   embFail  text longer than 50 characters, generateEmbedding throws
\*   badSave  contentRepository.save rejects the row (e.g. NUL in rawText)
\*   badIndex the row is saved, the to_tsvector update is rejected
\*   ocrFail  worker.recognize throws on the page image (scanned file)
PageKinds == {"ok", "short", "embFail", "badSave", "badIndex", "ocrFail"}

RECURSIVE SeqsUpTo(_, _)
SeqsUpTo(S, n) ==
  IF n = 0 THEN {<<>>}
  ELSE LET shorter == SeqsUpTo(S, n - 1)
       IN  shorter \cup {Append(s, x) : s \in {t \in shorter : Len(t) = n - 1}, x \in S}

\* A file on disk: unreadable, or a sequence of pages that either carries
\* more than 500 characters of embedded text or is a scan (no OCR is run on
\* a file with embedded text, so only a scan has ocrFail pages).
FilesUpTo(n) ==
  {[readable |-> FALSE, scanned |-> FALSE, pages |-> <<>>]}
  \cup {[readable |-> TRUE, scanned |-> FALSE, pages |-> p] :
          p \in SeqsUpTo(PageKinds \ {"ocrFail"}, n)}
  \cup {[readable |-> TRUE, scanned |-> TRUE, pages |-> p] :
          p \in {q \in SeqsUpTo(PageKinds, n) :
                   \E i \in 1..Len(q) : q[i] = "ocrFail"}}


VARIABLES
  files,          \* the PDF behind each document's filePath
  docs,           \* case_documents: ocrStatus, ocrError, pageCount, processedAt
  content,        \* case_content: the PageContent rows
  queue,          \* SimpleQueueService.queue
  qIsProcessing,  \* SimpleQueueService.isProcessing
  jobIdCounter,   \* SimpleQueueService.jobIdCounter
  run,            \* the processDocument call of each caller, if any
  oIsProcessing,  \* OcrService.isProcessing
  batch,          \* position of the scheduled and of the startup batch
  rep,            \* position of the reprocess request
  schedCount,     \* cron firings so far
  repCount,       \* reprocess requests so far
  outages,        \* store outages so far
  lastWrites,     \* observation: ocrStatus writes of the last step
  lastRets,       \* observation: processDocument calls settled by the last step
  lastIns,        \* observation: rows inserted by the last step
  lastStarted,    \* observation: id of the job made active most recently
  lastFinished,   \* observation: id of the job settled most recently
  repSnap,        \* observation: what the last reprocess of a document left
  call,           \* the arguments of a service call made outside the pipeline
  ret,            \* what that call returned or threw
  local,          \* the local variables of that call while it runs
  sync            \* SyncService: isSyncing and the sync runs in progress

vars == <<files, docs, content, queue, qIsProcessing, jobIdCounter,
          run, oIsProcessing, batch, rep, schedCount, repCount, outages,
          lastWrites, lastRets, lastIns, lastStarted, lastFinished, repSnap,
          call, ret, local, sync>>

\* ---- OcrStatus (case-document.entity.ts) ----
PENDING == "pending"
PROCESSING == "processing"
COMPLETED == "completed"
FAILED == "failed"
MANUAL_REVIEW == "manual_review"

OcrStatus == {PENDING, PROCESSING, COMPLETED, FAILED, MANUAL_REVIEW}
Terminal == {COMPLETED, FAILED, MANUAL_REVIEW}

\* pageCount: null
NullCount == -1

\* ocrError values: null, 'All pages failed to process',
\* `${n} pages failed to process`, and error.message of a caught exception
ErrNull == [kind |-> "null", n |-> 0]
ErrAllFailed == [kind |-> "allFailed", n |-> 0]
ErrSomeFailed(n) == [kind |-> "pagesFailed", n |-> n]
ErrMessage == [kind |-> "message", n |-> 0]

\* The callers of processDocument: the queue worker, the scheduled batch,
\* the startup batch, and the reprocess request.
BatchCallers == {"sched", "startup"}
RepCallers == {"rep1"}
Callers == {"queue"} \cup BatchCallers \cup RepCallers

IdleRun == [pc |-> "idle", doc |-> "none", pages |-> <<>>, idx |-> 0,
            processedPages |-> 0, failedPages |-> 0, rowId |-> 0]

\* processDocument(documentId) up to its first store write: the result record
\* is zeroed, findOne has resolved (the document exists) and the PROCESSING
\* update is issued.
StartRun(d) == [pc |-> "setProcessing", doc |-> d, pages |-> <<>>, idx |-> 0,
                processedPages |-> 0, failedPages |-> 0, rowId |-> 0]

InProgress(r) == run[r].pc # "idle"

NewDoc == [ocrStatus |-> PENDING, ocrError |-> ErrNull, pageCount |-> NullCount,
           processed |-> FALSE]

NoSnap == [calls |-> 0, rows |-> {}, nrows |-> 0, ocrStatus |-> PENDING,
           ocrError |-> ErrNull, pageCount |-> NullCount]

NoBatch == [pc |-> "idle", pending |-> <<>>]
NoRep == [pc |-> "idle", doc |-> "none"]

\* No service call outside the pipeline has been made.
NoCall == [op |-> "none"]
NoRet == [op |-> "none"]
NoLocal == [op |-> "none"]

\* The callers of a sync run: POST sync/full, POST sync/incremental and the
\* daily cron task.
SyncCallers == {"full", "incremental", "scheduled"}
NoSyncRun == [pc |-> "idle", pages |-> 0]
NoSync == [isSyncing |-> FALSE, runs |-> [c \in SyncCallers |-> NoSyncRun], started |-> 0]

\* Queue, batches and counters after construction: nothing queued, no
\* handler started (onModuleInit's processQueue finds the queue empty).
Idle ==
  /\ queue = <<>>
  /\ qIsProcessing = FALSE
  /\ jobIdCounter = 0
  /\ run = [c \in Callers |-> IdleRun]
  /\ oIsProcessing = FALSE
  /\ batch = [b \in BatchCallers |-> NoBatch]
  /\ rep = [c \in RepCallers |-> NoRep]
  /\ schedCount = 0
  /\ repCount = 0
  /\ outages = 0
  /\ lastWrites = {}
  /\ lastRets = {}
  /\ lastIns = {}
  /\ lastStarted = 0
  /\ lastFinished = 0
  /\ repSnap = [d \in Docs |-> NoSnap]
  /\ sync = NoSync

Init ==
  /\ files \in [{"d1"} -> FilesUpTo(MaxPages)]
  /\ docs = [d \in {"d1"} |-> NewDoc]
  /\ content = {}
  /\ Idle
  /\ call = NoCall
  /\ ret = NoRet
  /\ local = NoLocal

\* Longer files: the start for handlers that do not overlap.
InitSerial ==
  /\ files \in [{"d1"} -> FilesUpTo(SerialPages)]
  /\ docs = [d \in {"d1"} |-> NewDoc]
  /\ content = {}
  /\ Idle
  /\ call = NoCall
  /\ ret = NoRet
  /\ local = NoLocal

\* ---- SimpleQueueService ----

NoResult == [status |-> "none", totalPages |-> 0, processedPages |-> 0,
             failedPages |-> 0]

NewJob(id, d) == [id |-> id, documentId |-> d, status |-> "waiting",
                  progress |-> 0, started |-> FALSE, completed |-> FALSE,
                  result |-> NoResult, error |-> FALSE]

\* A find that takes the last waiting job.
FindWaitingLast(q) ==
  IF \E i \in 1..Len(q) : q[i].status = "waiting"
  THEN CHOOSE i \in 1..Len(q) :
         /\ q[i].status = "waiting"
         /\ \A k \in (i + 1)..Len(q) : q[k].status # "waiting"
  ELSE 0

\* this.queue.find((j) => j.status === 'waiting'): index of the first
\* waiting job, 0 when there is none
FindWaiting(q) ==
  IF \E i \in 1..Len(q) : q[i].status = "waiting"
  THEN CHOOSE i \in 1..Len(q) :
         /\ q[i].status = "waiting"
         /\ \A k \in 1..(i - 1) : q[k].status # "waiting"
  ELSE 0

\* One turn of the while loop of processQueue, up to the await in
\* processJob: the first waiting job becomes active and its processDocument
\* call starts; with no waiting job the loop ends and isProcessing is cleared.
\* Yields the queue, the flag, the worker's run and the last activated id.
ProcessQueueLoop(q, ls) ==
  LET i == FindWaiting(q) IN
  IF Len(q) > 0 /\ i # 0
  THEN [queue |-> [q EXCEPT ![i].status = "active", ![i].started = TRUE,
                            ![i].progress = 10],
        isProcessing |-> TRUE,
        run |-> StartRun(q[i].documentId),
        lastStarted |-> q[i].id]
  ELSE [queue |-> q, isProcessing |-> FALSE, run |-> IdleRun, lastStarted |-> ls]

\* An addJob that starts processQueue without looking at isProcessing, in a
\* processQueue that has lost its guard.
AddJobToUnguarded(q, d) ==
  ProcessQueueLoop(Append(q, NewJob(jobIdCounter + 1, d)), lastStarted)

\* An addJob that pushes the job and leaves the worker loop alone.
AddJobToUnstarted(q, d) ==
  [queue |-> Append(q, NewJob(jobIdCounter + 1, d)), isProcessing |-> qIsProcessing,
   run |-> run["queue"], lastStarted |-> lastStarted]

\* An addJob that adds nothing for a document that has a job waiting or
\* active.
AddJobToOnce(q, d) ==
  IF \E i \in 1..Len(q) : q[i].documentId = d /\ q[i].status \in {"waiting", "active"}
  THEN [queue |-> q, isProcessing |-> qIsProcessing, run |-> run["queue"],
        lastStarted |-> lastStarted]
  ELSE IF qIsProcessing
  THEN [queue |-> Append(q, NewJob(jobIdCounter + 1, d)), isProcessing |-> TRUE,
        run |-> run["queue"], lastStarted |-> lastStarted]
  ELSE ProcessQueueLoop(Append(q, NewJob(jobIdCounter + 1, d)), lastStarted)

\* addJob: push the job, then start processQueue unless it is running.
AddJobTo(q, d) ==
  LET q1 == Append(q, NewJob(jobIdCounter + 1, d)) IN
  IF qIsProcessing
  THEN [queue |-> q1, isProcessing |-> TRUE, run |-> run["queue"],
        lastStarted |-> lastStarted]
  ELSE ProcessQueueLoop(q1, lastStarted)

\* A processJob that puts the job back in line when processDocument rejects.
SettleJobRetrying(q, outcome, res) ==
  [i \in 1..Len(q) |->
     IF q[i].status # "active" THEN q[i]
     ELSE IF outcome = "returned"
          THEN [q[i] EXCEPT !.status = "completed", !.result = res,
                            !.progress = 100, !.completed = TRUE]
          ELSE [q[i] EXCEPT !.status = "waiting", !.error = TRUE]]

\* processJob after the await: the active job takes the outcome of its
\* processDocument call.
SettleJob(q, outcome, res) ==
  [i \in 1..Len(q) |->
     IF q[i].status # "active" THEN q[i]
     ELSE IF outcome = "returned"
          THEN [q[i] EXCEPT !.status = "completed", !.result = res,
                            !.progress = 100, !.completed = TRUE]
          ELSE [q[i] EXCEPT !.status = "failed", !.error = TRUE,
                            !.completed = TRUE]]

\* getStats: the number of jobs in each status
GetStats(q) ==
  [s \in {"waiting", "active", "completed", "failed"} |->
     Cardinality({i \in 1..Len(q) : q[i].status = s})]

ActiveJobId(q) ==
  IF \E i \in 1..Len(q) : q[i].status = "active"
  THEN q[CHOOSE i \in 1..Len(q) : q[i].status = "active"].id
  ELSE 0

\* the filter of clearCompleted
KeepJob(j) == j.status # "completed" /\ j.status # "failed"

\* ---- frames ----
Outside == <<call, ret, local, sync>>
QueueVars == <<queue, qIsProcessing, jobIdCounter, lastStarted, lastFinished>>
BatchVars == <<oIsProcessing, batch>>
RepVars == <<rep, repSnap>>
StoreVars == <<docs, content>>
Counters == <<schedCount, repCount, outages>>
NoObservation == lastWrites' = {} /\ lastRets' = {} /\ lastIns' = {}

\* ---- OcrService.processDocument, one caller r ----

DocOf(r) == run[r].doc

\* a variant that lets an unreadable file through as a file of no pages
ExtractThrowsOcrOnly(f) ==
  f.scanned /\ \E i \in 1..Len(f.pages) : f.pages[i] = "ocrFail"

\* extractTextFromPdf: readFile or the parser throws on an unreadable file;
\* in the OCR branch worker.recognize throws on an ocrFail page and the
\* exception leaves the page loop; otherwise one entry per page.
ExtractThrows(f) ==
  \/ ~f.readable
  \/ f.scanned /\ \E i \in 1..Len(f.pages) : f.pages[i] = "ocrFail"

\* The step after a page: the next page's findOne, or the status decision.
AfterPage(rr) ==
  IF rr.idx < Len(rr.pages)
  THEN [rr EXCEPT !.idx = rr.idx + 1, !.pc = "pageFind"]
  ELSE [rr EXCEPT !.pc = "final"]

\* a variant without the partial outcome
DecideStatusNoReview(processedPages, failedPages) ==
  IF failedPages = 0 THEN COMPLETED ELSE FAILED

\* The terminal status decided from the counters of the run.
DecideStatus(processedPages, failedPages) ==
  IF failedPages = 0 THEN COMPLETED
  ELSE IF processedPages = 0 THEN FAILED
  ELSE MANUAL_REVIEW

DecideError(processedPages, failedPages, old) ==
  IF failedPages = 0 THEN old
  ELSE IF processedPages = 0 THEN ErrAllFailed
  ELSE ErrSomeFailed(failedPages)

\* generateEmbedding is requested for text longer than 50 characters and
\* its exception is swallowed: the row gets a vector or null.
EmbeddingOf(kind) == kind \in {"ok", "badIndex"}

\* The generated uuid of a new row: an id no row carries and no run holds.
NewRowId ==
  LET used == {row.id : row \in content}
              \cup {run[r].rowId : r \in {c \in Callers : run[c].pc = "pageIndex"}}
  IN  CHOOSE n \in 1..(Cardinality(used) + 1) : n \notin used

RowsOf(c, d) == {row \in c : row.documentId = d}

Snapshot(d, ds, c) ==
  [calls |-> repSnap[d].calls + 1,
   rows |-> {[pageNumber |-> row.pageNumber, embedding |-> row.embedding,
              indexed |-> row.indexed] : row \in RowsOf(c, d)},
   nrows |-> Cardinality(RowsOf(c, d)),
   ocrStatus |-> ds[d].ocrStatus,
   ocrError |-> ds[d].ocrError,
   pageCount |-> ds[d].pageCount]

WriteEvent(r, d, to, kind) ==
  [by |-> r, doc |-> d, from |-> docs[d].ocrStatus, to |-> to, kind |-> kind]

\* A batch handler is over; the startup hook runs once.
BatchEnd(b) == [pc |-> IF b = "startup" THEN "finished" ELSE "idle", pending |-> <<>>]

\* What the caller of processDocument does when the call settles:
\*   the queue worker marks the job and takes the next waiting one;
\*   a batch goes on with the next pending document or ends;
\*   the reprocess endpoint queues the document.
Settle(r, outcome, res) ==
  /\ lastRets' = {[by |-> r, doc |-> DocOf(r), outcome |-> outcome,
                   result |-> res]}
  /\ \/ /\ r = "queue"
        /\ LET b == ProcessQueueLoop(SettleJob(queue, outcome, res), lastStarted) IN
             /\ queue' = b.queue
             /\ qIsProcessing' = b.isProcessing
             /\ run' = [run EXCEPT !["queue"] = b.run]
             /\ lastStarted' = b.lastStarted
        /\ lastFinished' = ActiveJobId(queue)
        /\ UNCHANGED <<jobIdCounter, BatchVars, RepVars>>
     \/ /\ r \in BatchCallers
        /\ IF batch[r].pending # <<>>
           THEN /\ run' = [run EXCEPT ![r] = StartRun(Head(batch[r].pending))]
                /\ batch' = [batch EXCEPT ![r].pending = Tail(batch[r].pending)]
                /\ UNCHANGED oIsProcessing
           ELSE /\ run' = [run EXCEPT ![r] = IdleRun]
                /\ batch' = [batch EXCEPT ![r] = BatchEnd(r)]
                /\ oIsProcessing' = FALSE
        /\ UNCHANGED <<QueueVars, RepVars>>
     \/ /\ r \in RepCallers
        /\ rep' = [rep EXCEPT ![r] = NoRep]
        /\ IF outcome = "returned"
           THEN /\ LET b == AddJobTo(queue, DocOf(r)) IN
                     /\ queue' = b.queue
                     /\ qIsProcessing' = b.isProcessing
                     /\ run' = [run EXCEPT ![r] = IdleRun, !["queue"] = b.run]
                     /\ lastStarted' = b.lastStarted
                /\ jobIdCounter' = jobIdCounter + 1
                /\ repSnap' = [repSnap EXCEPT ![DocOf(r)] = Snapshot(DocOf(r), docs', content')]
                /\ UNCHANGED lastFinished
           ELSE /\ run' = [run EXCEPT ![r] = IdleRun]
                /\ UNCHANGED <<QueueVars, repSnap>>
        /\ UNCHANGED BatchVars

Continue(r, rr) ==
  /\ run' = [run EXCEPT ![r] = rr]
  /\ lastRets' = {}
  /\ UNCHANGED <<QueueVars, BatchVars, RepVars>>

\* update(documentId, { ocrStatus: PROCESSING, ocrError: null })
SetProcessing(r) ==
  /\ run[r].pc = "setProcessing"
  /\ docs' = [docs EXCEPT ![DocOf(r)].ocrStatus = PROCESSING,
                          ![DocOf(r)].ocrError = ErrNull]
  /\ lastWrites' = {WriteEvent(r, DocOf(r), PROCESSING, "start")}
  /\ lastIns' = {}
  /\ Continue(r, [run[r] EXCEPT !.pc = "extract"])
  /\ UNCHANGED <<files, Outside, content, Counters>>

\* extractTextFromPdf(document.filePath)
Extract(r) ==
  /\ run[r].pc = "extract"
  /\ IF ExtractThrows(files[DocOf(r)])
     THEN Continue(r, [run[r] EXCEPT !.pc = "catch"])
     ELSE Continue(r, [run[r] EXCEPT !.pc = "setPageCount",
                                     !.pages = files[DocOf(r)].pages])
  /\ lastWrites' = {} /\ lastIns' = {}
  /\ UNCHANGED <<files, Outside, StoreVars, Counters>>

\* update(documentId, { pageCount: pages.length })
SetPageCount(r) ==
  /\ run[r].pc = "setPageCount"
  /\ docs' = [docs EXCEPT ![DocOf(r)].pageCount = Len(run[r].pages)]
  /\ lastWrites' = {} /\ lastIns' = {}
  /\ Continue(r, AfterPage(run[r]))
  /\ UNCHANGED <<files, Outside, content, Counters>>

\* a processPage that stores the page whether or not a row exists
PageFindNoSkip(r) ==
  /\ run[r].pc = "pageFind"
  /\ Continue(r, [run[r] EXCEPT !.pc = "pageSave"])
  /\ lastWrites' = {} /\ lastIns' = {}
  /\ UNCHANGED <<files, Outside, StoreVars, Counters>>

\* processPage: findOne({ documentId, pageNumber }); an existing row makes
\* the page a skip that counts as processed.
PageFind(r) ==
  /\ run[r].pc = "pageFind"
  /\ IF \E row \in content : row.documentId = DocOf(r) /\ row.pageNumber = run[r].idx
     THEN Continue(r, AfterPage([run[r] EXCEPT !.processedPages = @ + 1]))
     ELSE Continue(r, [run[r] EXCEPT !.pc = "pageSave"])
  /\ lastWrites' = {} /\ lastIns' = {}
  /\ UNCHANGED <<files, Outside, StoreVars, Counters>>

\* a processPage without the try/catch around generateEmbedding
RowThrowsOnEmbedding(kind) == kind \in {"badSave", "embFail"}

\* processPage throws before the row is stored: only when save rejects the
\* row, as the exception of generateEmbedding is caught and logged.
RowThrows(kind) == kind = "badSave"

\* processPage: contentRepository.save(content)
PageSave(r) ==
  /\ run[r].pc = "pageSave"
  /\ LET kind == run[r].pages[run[r].idx] IN
     IF RowThrows(kind)
     THEN /\ Continue(r, AfterPage([run[r] EXCEPT !.failedPages = @ + 1]))
          /\ lastIns' = {}
          /\ UNCHANGED content
     ELSE /\ content' = content \cup
                {[id |-> NewRowId, documentId |-> DocOf(r),
                  pageNumber |-> run[r].idx, embedding |-> EmbeddingOf(kind),
                  indexed |-> FALSE]}
          /\ lastIns' = {[by |-> r, doc |-> DocOf(r), pageNumber |-> run[r].idx,
                          ocrStatus |-> docs[DocOf(r)].ocrStatus]}
          /\ Continue(r, [run[r] EXCEPT !.pc = "pageIndex", !.rowId = NewRowId])
  /\ lastWrites' = {}
  /\ UNCHANGED <<files, Outside, docs, Counters>>

\* processPage: updateFullTextSearch(content.id, page.cleanedText)
PageIndex(r) ==
  /\ run[r].pc = "pageIndex"
  /\ LET kind == run[r].pages[run[r].idx] IN
     IF kind = "badIndex"
     THEN /\ Continue(r, AfterPage([run[r] EXCEPT !.failedPages = @ + 1]))
          /\ UNCHANGED content
     ELSE /\ content' = {IF row.id = run[r].rowId
                         THEN [row EXCEPT !.indexed = TRUE] ELSE row : row \in content}
          /\ Continue(r, AfterPage([run[r] EXCEPT !.processedPages = @ + 1]))
  /\ lastWrites' = {} /\ lastIns' = {}
  /\ UNCHANGED <<files, Outside, docs, Counters>>

\* A result whose status is left as it was initialised.
ResultOfUnset(rr, status) ==
  [status |-> PROCESSING, totalPages |-> Len(rr.pages),
   processedPages |-> rr.processedPages, failedPages |-> rr.failedPages]

ResultOf(rr, status) ==
  [status |-> status, totalPages |-> Len(rr.pages),
   processedPages |-> rr.processedPages, failedPages |-> rr.failedPages]

\* the status update after the page loop, and return result
Final(r) ==
  /\ run[r].pc = "final"
  /\ LET st == DecideStatus(run[r].processedPages, run[r].failedPages)
         d == DocOf(r) IN
       /\ docs' = [docs EXCEPT
            ![d].ocrStatus = st,
            ![d].ocrError = DecideError(run[r].processedPages, run[r].failedPages, @),
            ![d].processed = IF st = COMPLETED THEN TRUE ELSE @]
       /\ lastWrites' = {WriteEvent(r, d, st, "end")}
       /\ lastIns' = {}
       /\ UNCHANGED <<files, Outside, content, Counters>>
       /\ Settle(r, "returned", ResultOf(run[r], st))

\* the catch block: update(documentId, { ocrStatus: FAILED, ocrError:
\* error.message }) and return result
Catch(r) ==
  /\ run[r].pc = "catch"
  /\ docs' = [docs EXCEPT ![DocOf(r)].ocrStatus = FAILED,
                          ![DocOf(r)].ocrError = ErrMessage]
  /\ lastWrites' = {WriteEvent(r, DocOf(r), FAILED, "end")}
  /\ lastIns' = {}
  /\ UNCHANGED <<files, Outside, content, Counters>>
  /\ Settle(r, "returned", ResultOf(run[r], FAILED))

\* The store stops answering at one of the run's store calls: that call
\* throws, and so does the update of the catch block, so processDocument
\* rejects without a further write.
StorePcs == {"setProcessing", "setPageCount", "pageFind", "pageSave",
             "pageIndex", "final", "catch"}

Reject(r) ==
  /\ run[r].pc \in StorePcs
  /\ outages < MaxOutages
  /\ outages' = outages + 1
  /\ lastWrites' = {} /\ lastIns' = {}
  /\ UNCHANGED <<files, Outside, StoreVars, schedCount, repCount>>
  /\ Settle(r, "rejected", NoResult)

\* ---- OcrController, SimpleQueueService entry points ----

\* The handlers in flight: the worker loop, each batch, each reprocess request.
Handlers ==
  (IF qIsProcessing THEN 1 ELSE 0)
  + Cardinality({b \in BatchCallers : batch[b].pc \notin {"idle", "finished"}})
  + Cardinality({c \in RepCallers : rep[c].pc # "idle"})

\* A request or timer that starts a handler arrives while fewer than
\* MaxHandlers are in flight.
Room(limit) == Handlers < limit

\* Every reprocess request in flight ends in an addJob call.
JobBudget(jobs) ==
  jobIdCounter + Cardinality({c \in RepCallers : rep[c].pc # "idle"}) < jobs

\* POST ocr/process/:documentId for an existing document: addJob
Enqueue(limit, jobs, d) ==
  /\ JobBudget(jobs)
  /\ qIsProcessing \/ Room(limit)
  /\ LET b == AddJobTo(queue, d) IN
       /\ queue' = b.queue
       /\ qIsProcessing' = b.isProcessing
       /\ run' = [run EXCEPT !["queue"] = b.run]
       /\ lastStarted' = b.lastStarted
  /\ jobIdCounter' = jobIdCounter + 1
  /\ NoObservation
  /\ UNCHANGED <<files, Outside, StoreVars, BatchVars, RepVars, Counters, lastFinished>>

\* POST ocr/process/:documentId for an id that no document has: findOne
\* yields null and the handler throws before addJob
EnqueueUnknown(d) ==
  /\ d \notin DOMAIN docs
  /\ ret' = [op |-> "process", outcome |-> "thrown", doc |-> d]
  /\ NoObservation
  /\ UNCHANGED <<files, call, local, sync, StoreVars, QueueVars, BatchVars,
                 RepVars, Counters, run>>

\* clearCompleted()
ClearCompleted ==
  /\ \E i \in 1..Len(queue) : ~KeepJob(queue[i])
  /\ queue' = SelectSeq(queue, KeepJob)
  /\ NoObservation
  /\ UNCHANGED <<files, Outside, StoreVars, BatchVars, RepVars, Counters, run,
                 qIsProcessing, jobIdCounter, lastStarted, lastFinished>>

\* POST ocr/reprocess/:documentId for an existing document, up to the
\* delete issued by OcrService.reprocessDocument
ReprocessRequest(limit, jobs, c, d) ==
  /\ rep[c].pc = "idle"
  /\ repCount < MaxReprocess
  /\ Room(limit)
  /\ JobBudget(jobs)
  /\ rep' = [rep EXCEPT ![c] = [pc |-> "delete", doc |-> d]]
  /\ repCount' = repCount + 1
  /\ NoObservation
  /\ UNCHANGED <<files, Outside, StoreVars, QueueVars, BatchVars, run, schedCount, outages, repSnap>>

\* a variant that keeps the rows of the document
RepDeleteNoop(c) ==
  /\ rep[c].pc = "delete"
  /\ rep' = [rep EXCEPT ![c].pc = "reset"]
  /\ NoObservation
  /\ UNCHANGED <<files, Outside, StoreVars, QueueVars, BatchVars, run, Counters, repSnap>>

\* reprocessDocument: contentRepository.delete({ documentId })
RepDelete(c) ==
  /\ rep[c].pc = "delete"
  /\ content' = content \ RowsOf(content, rep[c].doc)
  /\ rep' = [rep EXCEPT ![c].pc = "reset"]
  /\ NoObservation
  /\ UNCHANGED <<files, Outside, docs, QueueVars, BatchVars, run, Counters, repSnap>>

\* reprocessDocument: the reset to PENDING, then processDocument(documentId)
RepReset(c) ==
  /\ rep[c].pc = "reset"
  /\ docs' = [docs EXCEPT ![rep[c].doc] = NewDoc]
  /\ lastWrites' = {WriteEvent(c, rep[c].doc, PENDING, "reset")}
  /\ lastRets' = {} /\ lastIns' = {}
  /\ rep' = [rep EXCEPT ![c].pc = "run"]
  /\ run' = [run EXCEPT ![c] = StartRun(rep[c].doc)]
  /\ UNCHANGED <<files, Outside, content, QueueVars, BatchVars, Counters, repSnap>>

\* ---- the batches of OcrService ----

PendingCount == Cardinality({d \in DOMAIN docs : docs[d].ocrStatus = PENDING})

\* find({ where: PENDING, take: batchSize, order: createdAt ASC })
Take(s, n) == SubSeq(s, 1, IF Len(s) < n THEN Len(s) ELSE n)
IsPending(d) == d \in DOMAIN docs /\ docs[d].ocrStatus = PENDING
PendingDocuments == Take(SelectSeq(DocOrder, IsPending), batchSize)

\* handleScheduledOcrProcessing, up to the count it awaits
SchedFire(limit) ==
  /\ schedCount < MaxSched
  /\ batch["sched"].pc = "idle"
  /\ oIsProcessing \/ Room(limit)
  /\ schedCount' = schedCount + 1
  /\ IF oIsProcessing
     THEN UNCHANGED <<oIsProcessing, batch>>
     ELSE /\ oIsProcessing' = TRUE
          /\ batch' = [batch EXCEPT !["sched"].pc = "count"]
  /\ NoObservation
  /\ UNCHANGED <<files, Outside, StoreVars, QueueVars, RepVars, run, repCount, outages>>

\* the setTimeout callback of onModuleInit, up to the count it awaits
StartupFire(limit) ==
  /\ batch["startup"].pc = "idle"
  /\ Room(limit)
  /\ batch' = [batch EXCEPT !["startup"].pc = "count"]
  /\ NoObservation
  /\ UNCHANGED <<files, Outside, StoreVars, QueueVars, RepVars, run, Counters, oIsProcessing>>

\* count({ where: PENDING }) resolves: nothing pending ends the handler
\* through its finally; otherwise processPendingDocuments issues its find
\* (the startup hook sets isProcessing only here).
BatchCount(b) ==
  /\ batch[b].pc = "count"
  /\ IF PendingCount = 0
     THEN /\ batch' = [batch EXCEPT ![b] = BatchEnd(b)]
          /\ oIsProcessing' = FALSE
     ELSE /\ batch' = [batch EXCEPT ![b].pc = "find"]
          /\ oIsProcessing' = IF b = "startup" THEN TRUE ELSE oIsProcessing
  /\ NoObservation
  /\ UNCHANGED <<files, Outside, StoreVars, QueueVars, RepVars, run, Counters>>

\* the find of processPendingDocuments resolves: the first document's
\* processDocument call starts, or the batch ends
BatchFind(b) ==
  /\ batch[b].pc = "find"
  /\ IF PendingDocuments = <<>>
     THEN /\ batch' = [batch EXCEPT ![b] = BatchEnd(b)]
          /\ oIsProcessing' = FALSE
          /\ UNCHANGED run
     ELSE /\ batch' = [batch EXCEPT ![b] = [pc |-> "run", pending |-> Tail(PendingDocuments)]]
          /\ run' = [run EXCEPT ![b] = StartRun(Head(PendingDocuments))]
          /\ UNCHANGED oIsProcessing
  /\ NoObservation
  /\ UNCHANGED <<files, Outside, StoreVars, QueueVars, RepVars, Counters>>

\* One slice of the processDocument call of caller r.
RunSteps(r) ==
  \/ SetProcessing(r)
  \/ Extract(r)
  \/ SetPageCount(r)
  \/ PageFind(r)
  \/ PageSave(r)
  \/ PageIndex(r)
  \/ Final(r)
  \/ Catch(r)
  \/ Reject(r)

\* The handlers once started.
Steps ==
  \/ ClearCompleted
  \/ \E c \in RepCallers : RepDelete(c)
  \/ \E c \in RepCallers : RepReset(c)
  \/ \E b \in BatchCallers : BatchCount(b)
  \/ \E b \in BatchCallers : BatchFind(b)
  \/ \E r \in Callers : RunSteps(r)

\* The requests and timers that start a handler, at most `limit` in flight.
Arrivals(limit) ==
  \/ \E d \in DOMAIN docs : Enqueue(limit, OverlapJobs, d)
  \/ \E c \in RepCallers, d \in DOMAIN docs : ReprocessRequest(limit, OverlapJobs, c, d)
  \/ SchedFire(limit)
  \/ StartupFire(limit)

Next == Arrivals(MaxHandlers) \/ Steps

\* The queue alone: process requests, clearCompleted and the worker loop.
NextQueue ==
  \/ \E d \in DOMAIN docs : Enqueue(MaxHandlers, MaxJobs, d)
  \/ \E d \in Docs : EnqueueUnknown(d)
  \/ ClearCompleted
  \/ RunSteps("queue")

SpecQueue == Init /\ [][NextQueue]_vars

\* Every processDocument call of the worker eventually settles.
LiveQueue == SpecQueue /\ WF_vars(RunSteps("queue"))

\* ---- the claims ----

ActiveJobs == {i \in 1..Len(queue) : queue[i].status = "active"}
Settled(j) == j.status \in {"completed", "failed"}
Running == {r \in Callers : InProgress(r)}

\* C1: at most one job of the queue is active, in every reachable state.
C1_AtMostOneActive == Cardinality(ActiveJobs) <= 1

\* a job is active while another waits behind it
C1_Witness ==
  /\ Len(queue) = 2
  /\ queue[1].status = "active"
  /\ queue[2].status = "waiting"

\* C2: no two processDocument calls are in progress at the same time,
\* whichever caller started them.
C2_OneRunAtATime == Cardinality(Running) <= 1

\* C3: the page store holds at most one row for a document and page number.
C3_UniquePage ==
  \A a \in content, b \in content :
    (a.documentId = b.documentId /\ a.pageNumber = b.pageNumber) => a = b

\* C4: jobs run in the order of their addJob calls (ids grow with that
\* order): no job waits while a later one has been made active, and no job
\* is unsettled while a later one has settled; cleared jobs are settled ones.
C4_Fifo ==
  /\ lastFinished <= lastStarted
  /\ \A i \in 1..Len(queue) :
       /\ queue[i].status = "waiting" => queue[i].id > lastStarted
       /\ ~Settled(queue[i]) => queue[i].id > lastFinished
       /\ Settled(queue[i]) => queue[i].id <= lastFinished

\* the first job failed and was cleared, the second is active
C4_Witness ==
  /\ Len(queue) = 1
  /\ lastFinished = 1
  /\ outages = 1
  /\ queue[1].id = 2 /\ queue[1].status = "active"

Returned == {e \in lastRets : e.outcome = "returned"}
GoodKinds == {"ok", "short", "embFail"}
PagesOfKind(f, K) == {i \in 1..Len(f.pages) : f.pages[i] \in K}

C6_PageScopedOcrFailure ==
  \A e \in Returned :
    LET f == files[e.doc]
        good == PagesOfKind(f, GoodKinds)
        bad == PagesOfKind(f, {"ocrFail"})
    IN  (f.readable /\ f.scanned /\ good # {} /\ bad # {}
         /\ good \cup bad = 1..Len(f.pages))
        => /\ docs[e.doc].ocrStatus = MANUAL_REVIEW
           /\ e.result.processedPages = Cardinality(good)
           /\ {row.pageNumber : row \in RowsOf(content, e.doc)} = good
           /\ docs[e.doc].ocrError = ErrSomeFailed(Cardinality(bad))

C8_StateMachine ==
  /\ \A w \in lastWrites :
       /\ w.kind = "start" =>
            (w.to = PROCESSING /\ docs[w.doc].ocrError = ErrNull)
       /\ w.kind = "end" => (w.from = PROCESSING /\ w.to \in Terminal)
       /\ w.to = PENDING => w.kind = "reset"
       /\ ~(w.from \in Terminal /\ w.to \in Terminal)
  /\ \A e \in Returned : docs[e.doc].ocrStatus # PROCESSING

\* C9: a reprocessDocument call that returns leaves the same rows (page
\* numbers, embeddings, index entries) and the same status, pageCount and
\* ocrError as the reprocessDocument call that returned before it.
C9_ReprocessIdempotent ==
  [][\A d \in Docs :
       (repSnap[d].calls >= 1 /\ repSnap'[d].calls = repSnap[d].calls + 1)
       => /\ repSnap'[d].rows = repSnap[d].rows
          /\ repSnap'[d].nrows = repSnap[d].nrows
          /\ repSnap'[d].ocrStatus = repSnap[d].ocrStatus
          /\ repSnap'[d].pageCount = repSnap[d].pageCount
          /\ repSnap'[d].ocrError = repSnap[d].ocrError]_vars

\* the second reprocessDocument call on a document with pages has returned
C9_Witness ==
  /\ repSnap["d1"].calls = 2
  /\ repSnap["d1"].nrows >= 1
  /\ repSnap["d1"].ocrStatus = MANUAL_REVIEW

\* C10: no row is inserted while the stored status of its document is
\* COMPLETED.
C10_NoInsertWhenCompleted ==
  \A i \in lastIns : i.ocrStatus # COMPLETED

\* C11: when a run returns on a document whose pageCount is set, the number
\* of rows of the document is pageCount minus the pages that failed in the
\* run; a COMPLETED document has exactly pageCount rows.
C11_RowsMatchPageCount ==
  \A e \in Returned :
    docs[e.doc].pageCount # NullCount =>
      /\ Cardinality(RowsOf(content, e.doc))
           = docs[e.doc].pageCount - e.result.failedPages
      /\ docs[e.doc].ocrStatus = COMPLETED =>
           Cardinality(RowsOf(content, e.doc)) = docs[e.doc].pageCount

\* C12: pageCount is written only while it is null (at most once between
\* two resets of the document) and only with the page list of a finished
\* extraction.
C12_PageCountOnce ==
  [][\A r \in Callers :
       SetPageCount(r) =>
         /\ docs[DocOf(r)].pageCount = NullCount
         /\ run[r].pages = files[DocOf(r)].pages]_vars

\* Handlers overlap as the event loop lets them.
Spec == Init /\ [][Next]_vars

\* The two endpoints, no handler starting while another is in flight.
NextSerial ==
  \/ \E d \in DOMAIN docs : Enqueue(1, SerialJobs, d)
  \/ \E c \in RepCallers, d \in DOMAIN docs : ReprocessRequest(1, SerialJobs, c, d)
  \/ ClearCompleted
  \/ \E c \in RepCallers : RepDelete(c)
  \/ \E c \in RepCallers : RepReset(c)
  \/ \E r \in {"queue"} \cup RepCallers : RunSteps(r)

SpecSerial == InitSerial /\ [][NextSerial]_vars

\* ---- SearchService, SearchController ----

\* limit || 10, ftWeight || 0.5, semWeight || 0.5 (weights in tenths)
DefaultLimit == 10
DefaultWeight == 5

\* An optional query parameter that the caller left out.
Absent == -1

\* `x || d`: the default replaces every falsy value, 0 included.
OrDefault(x, d) == IF x = Absent \/ x = 0 THEN d ELSE x

\* Weights a caller supplies, in tenths.
Weights == {0, 5, 10}

\* ts_rank of a page for the query; 0 stands for a tsvector that does not
\* match the tsquery.  Cosine similarity of a page and the query.
LexScores == {0, 1, 2}
SimScores == {-1, 1}

\* The query string: '', whitespace only, or words.
QueryTexts == {"empty", "blank", "words"}

\* The pages of a file with embedded text, by what the store keeps of them.
SearchKinds == {"ok", "short", "badSave", "badIndex"}

\* What a finished first run of processDocument leaves of a readable file:
\* a row per page that was saved, and the document with its closing status.
StoredPages(f) == {i \in 1..Len(f.pages) : f.pages[i] # "badSave"}

RowsAfterRun(d, f) ==
  {[id |-> Cardinality({k \in StoredPages(f) : k <= i}), documentId |-> d,
    pageNumber |-> i, embedding |-> EmbeddingOf(f.pages[i]),
    indexed |-> f.pages[i] # "badIndex"] : i \in StoredPages(f)}

DocAfterRun(f) ==
  LET failed == Cardinality({i \in 1..Len(f.pages) :
                               f.pages[i] \in {"badSave", "badIndex"}})
      done == Len(f.pages) - failed
  IN  [ocrStatus |-> DecideStatus(done, failed),
       ocrError |-> DecideError(done, failed, ErrNull),
       pageCount |-> Len(f.pages),
       processed |-> DecideStatus(done, failed) = COMPLETED]

\* A query and what it meets: the text, whether the embedding model is
\* loaded, and the rank and similarity of each page of the store for it.
Queries ==
  {[op |-> "search", text |-> t, embedder |-> e, lex |-> l, sim |-> m] :
     t \in QueryTexts, e \in BOOLEAN,
     l \in [1..SearchPages -> LexScores], m \in [1..SearchPages -> SimScores]}

\* Ranks and similarities exist for the pages the query can be compared
\* with: indexed pages for a query with words, embedded pages for a query
\* that has a vector.
WellFormedQuery(q, rows) ==
  \A i \in 1..SearchPages :
    /\ (q.text # "words" \/ ~\E row \in rows : row.pageNumber = i /\ row.indexed)
         => q.lex[i] = 0
    /\ (q.text # "words" \/ ~q.embedder
         \/ ~\E row \in rows : row.pageNumber = i /\ row.embedding)
         => q.sim[i] = 1

InitSearch ==
  /\ files \in [{"d1"} -> {[readable |-> TRUE, scanned |-> FALSE, pages |-> p] :
                              p \in SeqsUpTo(SearchKinds, SearchPages)}]
  /\ docs = [d \in {"d1"} |-> DocAfterRun(files[d])]
  /\ content = RowsAfterRun("d1", files["d1"])
  /\ Idle
  /\ call \in {q \in Queries : WellFormedQuery(q, content)}
  /\ ret = NoRet
  /\ local = NoLocal

\* generateEmbedding(query): throws without a loaded model and on a text
\* that is empty after trim.
\* a check of the model only, not of the text
EmbeddingThrowsUnloaded(q) == ~q.embedder

\* generateEmbedding throws: model not loaded, or empty or blank text
EmbeddingThrows(q) == ~q.embedder \/ q.text \in {"empty", "blank"}

\* a join that keeps the pages of completed documents only
JoinedCompleted ==
  {row \in content : row.documentId \in DOMAIN docs
                       /\ docs[row.documentId].ocrStatus = COMPLETED}

\* JOIN case_documents d ON c.document_id = d.id (and the case of the row)
Joined == {row \in content : row.documentId \in DOMAIN docs}

Scored(row, score) == [id |-> row.id, pageNumber |-> row.pageNumber, score |-> score]

\* ts_rank(c.tsvector_content, plainto_tsquery($1)); a row without a
\* tsvector matches nothing.
LexRank(row) == IF row.indexed THEN call.lex[row.pageNumber] ELSE 0

\* WHERE c.tsvector_content @@ plainto_tsquery('english', $1)
FullTextScores == {Scored(row, LexRank(row)) : row \in {r \in Joined : LexRank(r) > 0}}

\* 1 - (c.embedding <=> $1::vector) ... WHERE c.embedding IS NOT NULL
Distance(row) == 1 - call.sim[row.pageNumber]
SemanticScores == {Scored(row, 1 - Distance(row)) : row \in {r \in Joined : r.embedding}}

\* The orders ORDER BY may give to a set of rows: rows of equal key come in
\* any order.
Arrangements(S) ==
  {s \in [1..Cardinality(S) -> S] : \A i, j \in 1..Cardinality(S) : i # j => s[i] # s[j]}

\* the same ORDER BY without DESC
OrderByScoreAsc(S) ==
  {s \in Arrangements(S) : \A i, j \in 1..Len(s) : i < j => s[i].score <= s[j].score}

\* ORDER BY rank DESC / ORDER BY hybrid_score DESC
OrderByScoreDesc(S) ==
  {s \in Arrangements(S) : \A i, j \in 1..Len(s) : i < j => s[i].score >= s[j].score}

\* ORDER BY c.embedding <=> $1::vector
OrderByDistance(S) ==
  {s \in Arrangements(S) : \A i, j \in 1..Len(s) : i < j => 1 - s[i].score <= 1 - s[j].score}

\* SQL NULL and COALESCE(x, 0)
Null == <<>>
Coalesce(x, d) == IF x = Null THEN d ELSE x[1]

\* an inner join in place of the full outer join
InnerJoin(L, R) ==
  {[id |-> p[1].id, pageNumber |-> p[1].pageNumber,
    ft |-> <<p[1].score>>, sem |-> <<p[2].score>>] :
     p \in {x \in L \X R : x[1].id = x[2].id}}

\* full_text_scores ft FULL OUTER JOIN semantic_scores sem ON ft.id = sem.id
FullOuterJoin(L, R) ==
  {[id |-> p[1].id, pageNumber |-> p[1].pageNumber,
    ft |-> <<p[1].score>>, sem |-> <<p[2].score>>] :
     p \in {x \in L \X R : x[1].id = x[2].id}}
  \cup {[id |-> l.id, pageNumber |-> l.pageNumber, ft |-> <<l.score>>, sem |-> Null] :
          l \in {x \in L : \A r \in R : r.id # x.id}}
  \cup {[id |-> r.id, pageNumber |-> r.pageNumber, ft |-> Null, sem |-> <<r.score>>] :
          r \in {x \in R : \A l \in L : l.id # x.id}}

\* (COALESCE(ft.ft_score, 0) * $3 + COALESCE(sem.sem_score, 0) * $4)
HybridScores(ftWeight, semWeight) ==
  {[id |-> j.id, pageNumber |-> j.pageNumber,
    score |-> Coalesce(j.ft, 0) * ftWeight + Coalesce(j.sem, 0) * semWeight] :
     j \in FullOuterJoin(FullTextScores, SemanticScores)}

SearchFrame ==
  UNCHANGED <<files, docs, content, call, local, sync, QueueVars, BatchVars,
              RepVars, Counters, run, lastWrites, lastRets, lastIns>>

Response(op, outcome, rows, limit, asked, used) ==
  [op |-> op, outcome |-> outcome, rows |-> rows, limit |-> limit,
   asked |-> asked, used |-> used]

NoWeights == [ft |-> Absent, sem |-> Absent]

\* A behaviour holds one search call: a search reads the store and changes
\* nothing.
\* fullTextSearch(query, limit)
FullTextSearch(limit) ==
  /\ call.op = "search" /\ ret = NoRet
  /\ \E s \in OrderByScoreDesc(FullTextScores) :
       ret' = Response("fullText", "returned", Take(s, limit), limit,
                       NoWeights, NoWeights)
  /\ SearchFrame

\* semanticSearch(query, limit)
SemanticSearch(limit) ==
  /\ call.op = "search" /\ ret = NoRet
  /\ IF EmbeddingThrows(call)
     THEN ret' = Response("semantic", "thrown", <<>>, limit, NoWeights, NoWeights)
     ELSE \E s \in OrderByDistance(SemanticScores) :
            ret' = Response("semantic", "returned", Take(s, limit), limit,
                            NoWeights, NoWeights)
  /\ SearchFrame

\* hybridSearch(query, limit, fullTextWeight, semanticWeight), called with
\* the weights `used`; `asked` are the weights the caller of the entry
\* point gave.
HybridSearchAs(limit, asked, used) ==
  /\ call.op = "search" /\ ret = NoRet
  /\ IF EmbeddingThrows(call)
     THEN ret' = Response("hybrid", "thrown", <<>>, limit, asked, used)
     ELSE \E s \in OrderByScoreDesc(HybridScores(used.ft, used.sem)) :
            ret' = Response("hybrid", "returned", Take(s, limit), limit, asked, used)
  /\ SearchFrame

HybridSearch(limit, ftWeight, semWeight) ==
  HybridSearchAs(limit, [ft |-> ftWeight, sem |-> semWeight],
                 [ft |-> ftWeight, sem |-> semWeight])

\* SearchController.hybridSearch(q, limit?, ftWeight?, semWeight?)
HybridRequest(limit, ftWeight, semWeight) ==
  HybridSearchAs(OrDefault(limit, DefaultLimit),
                 [ft |-> ftWeight, sem |-> semWeight],
                 [ft |-> OrDefault(ftWeight, DefaultWeight),
                  sem |-> OrDefault(semWeight, DefaultWeight)])

NextSearch ==
  \/ \E limit \in 1..MaxLimit : FullTextSearch(limit)
  \/ \E limit \in 1..MaxLimit : SemanticSearch(limit)
  \/ \E limit \in 1..MaxLimit, ftWeight \in Weights, semWeight \in Weights :
       HybridSearch(limit, ftWeight, semWeight)
  \/ \E limit \in {Absent} \cup 1..MaxLimit,
        ftWeight \in {Absent} \cup Weights, semWeight \in {Absent} \cup Weights :
       HybridRequest(limit, ftWeight, semWeight)

SpecSearch == InitSearch /\ [][NextSearch]_vars

\* ---- the claims about search ----

Min(a, b) == IF a < b THEN a ELSE b
Ids(rows) == {rows[i].id : i \in 1..Len(rows)}
RowOfId(id) == CHOOSE row \in content : row.id = id
MatchesLexically(row) == row.indexed /\ call.lex[row.pageNumber] > 0
HybridReturned == ret.op = "hybrid" /\ ret.outcome = "returned"

\* The score the claim gives a page: each weight times the page's score on
\* that side, a missing score counting 0.
FinalScore(row, w) ==
  w.ft * (IF MatchesLexically(row) THEN call.lex[row.pageNumber] ELSE 0)
  + w.sem * (IF row.embedding THEN call.sim[row.pageNumber] ELSE 0)

Candidates == {row \in content : MatchesLexically(row) \/ row.embedding}

\* C13: hybridSearch returns the first `limit` pages, by descending final
\* score, among the pages that match lexically or carry an embedding; the
\* final score is the weighted sum with a missing score counting 0, and no
\* page left out scores higher than a page returned.
C13_HybridRanking ==
  HybridReturned =>
    /\ Len(ret.rows) = Min(ret.limit, Cardinality(Candidates))
    /\ Cardinality(Ids(ret.rows)) = Len(ret.rows)
    /\ \A i \in 1..Len(ret.rows) :
         \E row \in Candidates :
           /\ row.id = ret.rows[i].id
           /\ ret.rows[i].score = FinalScore(row, ret.used)
    /\ \A i, j \in 1..Len(ret.rows) :
         i < j => ret.rows[i].score >= ret.rows[j].score
    /\ \A row \in Candidates :
         row.id \notin Ids(ret.rows) =>
           \A i \in 1..Len(ret.rows) : FinalScore(row, ret.used) <= ret.rows[i].score

\* a hybrid search returns a page that matches only lexically and a page
\* that matches only semantically
C13_Witness ==
  /\ HybridReturned
  /\ \E a, b \in Ids(ret.rows) :
       /\ MatchesLexically(RowOfId(a)) /\ ~RowOfId(a).embedding
       /\ ~MatchesLexically(RowOfId(b)) /\ RowOfId(b).embedding

\* The results fullTextSearch and semanticSearch may return for the query.
FullTextResults(limit) == {Take(s, limit) : s \in OrderByScoreDesc(FullTextScores)}
SemanticResults(limit) == {Take(s, limit) : s \in OrderByDistance(SemanticScores)}

IdSeq(rows) == [i \in 1..Len(rows) |-> rows[i].id]
ScoreSeq(rows, unit) == [i \in 1..Len(rows) |-> rows[i].score * unit]
IsLexicalRow(r) == MatchesLexically(RowOfId(r.id))
IsEmbeddedRow(r) == RowOfId(r.id).embedding
IsPrefix(a, b) == Len(a) <= Len(b) /\ a = SubSeq(b, 1, Len(a))
LexicalOnly == [ft |-> 10, sem |-> 0]
SemanticOnly == [ft |-> 0, sem |-> 10]

\* C14 as stated: hybridSearch with weights (1, 0) returns the pages of
\* fullTextSearch in the same order, and with weights (0, 1) the pages of
\* semanticSearch in the same order.
C14_HybridEqualsSingleMode ==
  HybridReturned =>
    /\ ret.used = LexicalOnly =>
         \E f \in FullTextResults(ret.limit) : IdSeq(ret.rows) = IdSeq(f)
    /\ ret.used = SemanticOnly =>
         \E f \in SemanticResults(ret.limit) : IdSeq(ret.rows) = IdSeq(f)

\* C14 amended: with weights (1, 0) the lexical matches come first, with
\* the score sequence of fullTextSearch; with weights (0, 1) the embedded
\* pages returned carry a prefix of the score sequence of semanticSearch.
C14_HybridKeepsOrder ==
  HybridReturned =>
    /\ ret.used = LexicalOnly =>
         /\ \A f \in FullTextResults(ret.limit) :
              ScoreSeq(SelectSeq(ret.rows, IsLexicalRow), 1) = ScoreSeq(f, 10)
         /\ \A i, j \in 1..Len(ret.rows) :
              (i < j /\ IsLexicalRow(ret.rows[j])) => IsLexicalRow(ret.rows[i])
    /\ ret.used = SemanticOnly =>
         \A f \in SemanticResults(ret.limit) :
           IsPrefix(ScoreSeq(SelectSeq(ret.rows, IsEmbeddedRow), 1), ScoreSeq(f, 10))

\* with weights (1, 0) a lexical match is followed by a page that only
\* carries an embedding
C14_Witness ==
  /\ HybridReturned
  /\ ret.used = LexicalOnly
  /\ Len(ret.rows) = 2
  /\ IsLexicalRow(ret.rows[1])
  /\ ~IsLexicalRow(ret.rows[2])

\* The weights the caller of the entry point gave, 0.5 where it gave none.
WeightsAsked(asked) ==
  [ft |-> IF asked.ft = Absent THEN DefaultWeight ELSE asked.ft,
   sem |-> IF asked.sem = Absent THEN DefaultWeight ELSE asked.sem]

\* C15: the hybrid entry point scores every page with the weights the
\* caller supplied, 0 included, and with 0.5 only for a weight the caller
\* left out.
C15_WeightsAsSupplied ==
  HybridReturned =>
    \A i \in 1..Len(ret.rows) :
      ret.rows[i].score = FinalScore(RowOfId(ret.rows[i].id), WeightsAsked(ret.asked))

SearchReturned(op) == ret.op = op /\ ret.outcome = "returned"

\* A page is in a result, or the result is full (LIMIT cut it off).
InResult(row) == row.id \in Ids(ret.rows) \/ Len(ret.rows) = ret.limit

\* C18: every stored and indexed page is a candidate of fullTextSearch
\* (when it matches the query), of semanticSearch (when it carries an
\* embedding) and of hybridSearch, whatever the ocrStatus of its document:
\* only LIMIT keeps a candidate out of a result, and every page returned
\* is returned whatever the status of its document.
C18_SearchIgnoresStatus ==
  /\ SearchReturned("fullText") =>
        \A row \in content : MatchesLexically(row) => InResult(row)
  /\ SearchReturned("semantic") =>
        \A row \in content : row.embedding => InResult(row)
  /\ SearchReturned("hybrid") =>
        \A row \in content : MatchesLexically(row) \/ row.embedding => InResult(row)

\* A page of a document left in MANUAL_REVIEW is returned by a search.
C18_Witness ==
  /\ docs["d1"].ocrStatus = MANUAL_REVIEW
  /\ SearchReturned("fullText")
  /\ \E row \in content : row.documentId = "d1" /\ row.id \in Ids(ret.rows)

CannotEmbed == call.text \in {"empty", "blank"} \/ ~call.embedder

\* C19: when the query cannot be embedded (empty or blank query, or model
\* not loaded) semanticSearch and hybridSearch throw and return no result
\* list, while fullTextSearch with that query returns as it otherwise does.
C19_EmbeddingFailureIsFatal ==
  (call.op = "search" /\ CannotEmbed) =>
    /\ ret.op \in {"semantic", "hybrid"} => ret.outcome = "thrown" /\ ret.rows = <<>>
    /\ ret.op = "fullText" =>
         /\ ret.outcome = "returned"
         /\ ret.rows \in FullTextResults(ret.limit)

\* A blank query with the model loaded made hybridSearch throw.
C19_Witness ==
  /\ call.op = "search" /\ call.text = "blank" /\ call.embedder
  /\ ret.op = "hybrid" /\ ret.outcome = "thrown"

\* ---- SearchService.truncateContent ----

\* Strings are sequences of characters.
maxLength == 300
Lead == 100
Ellipsis == <<".", ".", ".">>

Tax == <<"T", "a", "x">>
Vat == <<"V", "a", "t">>
tax == <<"t", "a", "x">>
vat == <<"v", "a", "t">>

\* Words a query is made of, words a page text holds, and the lengths of
\* the stretches of other text around them.
QueryWords == {tax, Vat}
TextWords == {Tax, vat}
GapLengths == {0, 320}
Gap(n) == [i \in 1..n |-> "e"]

RECURSIVE JoinWords(_)
JoinWords(ws) ==
  IF ws = <<>> THEN <<>>
  ELSE IF Len(ws) = 1 THEN ws[1]
  ELSE ws[1] \o <<" ">> \o JoinWords(Tail(ws))

\* Queries: words separated by one space, also with a space in front.
SnippetQueries ==
  LET plain == {JoinWords(ws) : ws \in SeqsUpTo(QueryWords, MaxTerms)}
  IN  plain \cup {<<" ">> \o q : q \in plain}

\* Cleaned page texts: words with stretches of other text around them.
RECURSIVE TextsOf(_)
TextsOf(n) ==
  IF n = 0 THEN {Gap(g) : g \in GapLengths}
  ELSE {t \o w \o Gap(g) : t \in TextsOf(n - 1), w \in TextWords, g \in GapLengths}
SnippetTexts == UNION {TextsOf(n) : n \in 0..MaxOccurrences}

ToLower(c) == IF c = "T" THEN "t" ELSE IF c = "V" THEN "v" ELSE c
ToLowerCase(str) == [i \in 1..Len(str) |-> ToLower(str[i])]
IsSpace(c) == c \in {" ", "\n"}

\* str.split(/\s+/)
RECURSIVE SplitWs(_)
SplitWs(str) ==
  IF \A i \in 1..Len(str) : ~IsSpace(str[i]) THEN <<str>>
  ELSE LET spaces == {i \in 1..Len(str) : IsSpace(str[i])}
           i == CHOOSE k \in spaces : \A m \in spaces : k <= m
           later == {k \in (i + 1)..Len(str) : ~IsSpace(str[k])}
           j == IF later = {} THEN Len(str) + 1
                ELSE CHOOSE k \in later : \A m \in later : k <= m
       IN  <<SubSeq(str, 1, i - 1)>> \o SplitWs(SubSeq(str, j, Len(str)))

\* text.indexOf(term): the first position (from 0) of term, or -1
IndexOf(text, term) ==
  LET at == {p \in 0..(Len(text) - Len(term)) :
               SubSeq(text, p + 1, p + Len(term)) = term}
  IN  IF at = {} THEN -1 ELSE CHOOSE p \in at : \A q \in at : p <= q

\* the for loop: the position of the first term, in query order, that
\* occurs in the text; 0 when none does
RECURSIVE BestPosition(_, _)
BestPosition(queryTerms, lowerText) ==
  IF queryTerms = <<>> THEN 0
  ELSE IF IndexOf(lowerText, Head(queryTerms)) # -1
       THEN IndexOf(lowerText, Head(queryTerms))
       ELSE BestPosition(Tail(queryTerms), lowerText)

Max(a, b) == IF a > b THEN a ELSE b

\* a window that starts behind the match
SnippetStartBehind(bestPosition) == Max(0, bestPosition + Lead)

\* Math.max(0, bestPosition - 100)
SnippetStart(bestPosition) == Max(0, bestPosition - Lead)

\* str.trim()
RECURSIVE Trim(_)
Trim(str) ==
  IF str = <<>> THEN str
  ELSE IF IsSpace(str[1]) THEN Trim(Tail(str))
  ELSE IF IsSpace(str[Len(str)]) THEN Trim(SubSeq(str, 1, Len(str) - 1))
  ELSE str

TruncateContent(text, query, maxLen) ==
  IF text = <<>> THEN <<>>
  ELSE LET queryTerms == SplitWs(ToLowerCase(query))
           lowerText == ToLowerCase(text)
           snippetStart == SnippetStart(BestPosition(queryTerms, lowerText))
           snippetEnd == Min(Len(text), snippetStart + maxLen)
           snippet == SubSeq(text, snippetStart + 1, snippetEnd)
           front == IF snippetStart > 0 THEN Ellipsis \o snippet ELSE snippet
           whole == IF snippetEnd < Len(text) THEN front \o Ellipsis ELSE front
       IN  Trim(whole)

InitSnippet ==
  /\ files = [d \in {"d1"} |-> [readable |-> FALSE, scanned |-> FALSE, pages |-> <<>>]]
  /\ docs = [d \in {"d1"} |-> NewDoc]
  /\ content = {}
  /\ Idle
  /\ call \in {[op |-> "snippet", text |-> t, query |-> q] :
                 t \in SnippetTexts, q \in SnippetQueries}
  /\ ret = NoRet
  /\ local = NoLocal

\* this.truncateContent(row.cleaned_text, query)
Truncate ==
  /\ call.op = "snippet" /\ ret = NoRet
  /\ ret' = [op |-> "snippet",
             value |-> TruncateContent(call.text, call.query, maxLength)]
  /\ SearchFrame

SpecSnippet == InitSnippet /\ [][Truncate]_vars

\* ---- the claims about snippets ----

TermsOf(query) ==
  LET queryTerms == SplitWs(ToLowerCase(query))
  IN  {queryTerms[i] : i \in 1..Len(queryTerms)}

SomeTermOccurs(text, query) ==
  \E term \in TermsOf(query) : IndexOf(ToLowerCase(text), term) # -1

HasPrefix(str, pre) == Len(str) >= Len(pre) /\ SubSeq(str, 1, Len(pre)) = pre
HasSuffix(str, suf) ==
  Len(str) >= Len(suf) /\ SubSeq(str, Len(str) - Len(suf) + 1, Len(str)) = suf

\* The text of a snippet between its ellipses (no page text holds a dot).
WindowOf(snippet) ==
  LET front == IF HasPrefix(snippet, Ellipsis)
               THEN SubSeq(snippet, Len(Ellipsis) + 1, Len(snippet)) ELSE snippet
  IN  IF HasSuffix(front, Ellipsis)
      THEN SubSeq(front, 1, Len(front) - Len(Ellipsis)) ELSE front

EarliestPosition(text, query) ==
  LET at == {IndexOf(ToLowerCase(text), term) : term \in TermsOf(query)} \ {-1}
  IN  IF at = {} THEN 0 ELSE CHOOSE p \in at : \A q \in at : p <= q

\* C17: the window is anchored at the earliest position, over all terms of
\* the query, at which a term occurs in the text: it starts at
\* max(0, position - 100) and spans maxLength characters, has an ellipsis
\* in front exactly when it starts past 0 and one behind exactly when it
\* ends before the end of the text; when no term occurs it is the first
\* maxLength characters of the text.
C17_AnchoredAtEarliestTerm ==
  ret.op = "snippet" =>
    LET start == Max(0, EarliestPosition(call.text, call.query) - Lead)
        end == Min(Len(call.text), start + maxLength)
    IN  ret.value = (IF start > 0 THEN Ellipsis ELSE <<>>)
                      \o SubSeq(call.text, start + 1, end)
                      \o (IF end < Len(call.text) THEN Ellipsis ELSE <<>>)

\* ---- EmbeddingsService ----

embeddingDimension == 384

\* The texts a caller passes, and the length of the vector the loaded model
\* yields for one text.
TextKinds == {"empty", "blank", "words", "other"}
ModelDimensions == {embeddingDimension, embeddingDimension + 1}

\* The pooled, normalised vector of the model for one text.
ModelVector(text, dim) == [k \in 1..dim |-> <<text, k>>]

\* this.embedder(texts, ...).data: the vectors of the texts, one after the
\* other in one flat array.
RECURSIVE EmbedderData(_, _)
EmbedderData(texts, dim) ==
  IF texts = <<>> THEN <<>>
  ELSE ModelVector(Head(texts), dim) \o EmbedderData(Tail(texts), dim)

\* data.slice(start, end)
Slice(data, start, end) == SubSeq(data, start + 1, Min(end, Len(data)))

Thrown == [thrown |-> TRUE, value |-> <<>>]
Yields(v) == [thrown |-> FALSE, value |-> v]

\* generateEmbedding(text)
GenerateEmbedding(text, embedder, dim) ==
  IF ~embedder THEN Thrown
  ELSE IF text \in {"empty", "blank"} THEN Thrown
  ELSE LET embedding == EmbedderData(<<text>>, dim)
       IN  IF Len(embedding) # embeddingDimension THEN Thrown
           ELSE Yields(embedding)

\* generateEmbeddingsBatch(texts)
GenerateEmbeddingsBatch(texts, embedder, dim) ==
  IF ~embedder THEN Thrown
  ELSE IF texts = <<>> THEN Yields(<<>>)
  ELSE LET data == EmbedderData(texts, dim)
       IN  Yields([i \in 1..Len(texts) |->
                     Slice(data, (i - 1) * embeddingDimension,
                           (i - 1) * embeddingDimension + embeddingDimension)])

InitEmbed ==
  /\ files = [d \in {"d1"} |-> [readable |-> FALSE, scanned |-> FALSE, pages |-> <<>>]]
  /\ docs = [d \in {"d1"} |-> NewDoc]
  /\ content = {}
  /\ Idle
  /\ call \in {[op |-> "embed", texts |-> t, embedder |-> e, dim |-> n] :
                 t \in SeqsUpTo(TextKinds, MaxBatch), e \in BOOLEAN,
                 n \in ModelDimensions}
  /\ ret = NoRet
  /\ local = NoLocal

\* one text of the list is embedded on its own
EmbedOne(i) ==
  /\ call.op = "embed" /\ ret = NoRet
  /\ ret' = [op |-> "generateEmbedding", index |-> i,
             outcome |-> GenerateEmbedding(call.texts[i], call.embedder, call.dim)]
  /\ SearchFrame

\* the list is embedded in one batch
EmbedBatch ==
  /\ call.op = "embed" /\ ret = NoRet
  /\ ret' = [op |-> "generateEmbeddingsBatch",
             outcome |-> GenerateEmbeddingsBatch(call.texts, call.embedder, call.dim)]
  /\ SearchFrame

NextEmbed ==
  \/ \E i \in 1..MaxBatch : i <= Len(call.texts) /\ EmbedOne(i)
  \/ EmbedBatch

SpecEmbed == InitEmbed /\ [][NextEmbed]_vars

\* C20: generateEmbeddingsBatch agrees item by item with generateEmbedding:
\* it fails whenever generateEmbedding fails on some text of the list, and
\* otherwise yields at each position the vector generateEmbedding yields
\* for the text at that position.
C20_BatchAgreesWithSingle ==
  ret.op = "generateEmbeddingsBatch" =>
    LET single(i) == GenerateEmbedding(call.texts[i], call.embedder, call.dim)
    IN  IF \E i \in 1..Len(call.texts) : single(i).thrown
        THEN ret.outcome.thrown
        ELSE ~ret.outcome.thrown =>
               \A i \in 1..Len(call.texts) : ret.outcome.value[i] = single(i).value

\* ---- EmbeddingsService.chunkText ----

\* The pipeline at rest: the frame of a call that touches only its own
\* arguments, locals and result.
PipelineFrame ==
  UNCHANGED <<files, docs, content, sync, QueueVars, BatchVars, RepVars,
              Counters, run, lastWrites, lastRets, lastIns>>

\* A text whose characters are told apart by their position.
TextOfLen(n) == [i \in 1..n |-> i]

\* str.slice(start, end): a negative index counts from the end
FromEnd(len, i) == IF i < 0 THEN Max(len + i, 0) ELSE Min(i, len)
StringSlice(str, start, end) ==
  SubSeq(str, FromEnd(Len(str), start) + 1, FromEnd(Len(str), end))

InitChunk ==
  /\ files = [d \in {"d1"} |-> [readable |-> FALSE, scanned |-> FALSE, pages |-> <<>>]]
  /\ docs = [d \in {"d1"} |-> NewDoc]
  /\ content = {}
  /\ Idle
  /\ call \in {[op |-> "chunkText", text |-> TextOfLen(n), maxChunkSize |-> m,
                 overlap |-> o] :
                 n \in 0..MaxTextLen, m \in 1..MaxChunkSize, o \in 0..MaxChunkSize}
  /\ ret = NoRet
  /\ local = NoLocal

\* a step that moves on by the chunk size plus the overlap
AdvanceSkipping(position, maxChunkSize, overlap) == position + maxChunkSize + overlap

\* position += maxChunkSize - overlap
Advance(position, maxChunkSize, overlap) == position + maxChunkSize - overlap

\* const chunks = []; let position = 0
ChunkEnter ==
  /\ call.op = "chunkText" /\ local = NoLocal /\ ret = NoRet
  /\ local' = [op |-> "chunkText", position |-> 0, chunks |-> <<>>]
  /\ UNCHANGED <<call, ret>>
  /\ PipelineFrame

\* one turn of the while loop; a loop that no longer advances is followed
\* for MaxTextLen + 1 turns
ChunkLoop ==
  /\ local.op = "chunkText" /\ ret = NoRet
  /\ local.position < Len(call.text)
  /\ Len(local.chunks) <= MaxTextLen
  /\ local' = [local EXCEPT
                 !.chunks = Append(@, [start |-> local.position,
                                       text |-> StringSlice(call.text, local.position,
                                                            local.position + call.maxChunkSize)]),
                 !.position = Advance(@, call.maxChunkSize, call.overlap)]
  /\ UNCHANGED <<call, ret>>
  /\ PipelineFrame

\* return chunks
ChunkReturn ==
  /\ local.op = "chunkText" /\ ret = NoRet
  /\ ~(local.position < Len(call.text))
  /\ ret' = [op |-> "chunkText", value |-> local.chunks]
  /\ UNCHANGED <<call, local>>
  /\ PipelineFrame

NextChunk == ChunkEnter \/ ChunkLoop \/ ChunkReturn

SpecChunk == InitChunk /\ [][NextChunk]_vars

\* The call is not suspended: the loop holds no await.
LiveChunk == SpecChunk /\ WF_vars(NextChunk)

ChunkReturned == ret.op = "chunkText"
ChunkStride == call.maxChunkSize - call.overlap

\* What the claim says of the list a call returned.
ChunksAsClaimed ==
  /\ \A i \in 1..Len(ret.value) :
       /\ Len(ret.value[i].text) <= call.maxChunkSize
       /\ ret.value[i].start = (i - 1) * ChunkStride
       /\ ret.value[i].text =
            SubSeq(call.text, ret.value[i].start + 1,
                   Min(Len(call.text), ret.value[i].start + call.maxChunkSize))
  /\ \A k \in 1..Len(call.text) :
       \E i \in 1..Len(ret.value) :
         \E j \in 1..Len(ret.value[i].text) : ret.value[i].text[j] = call.text[k]
  /\ call.text = <<>> => ret.value = <<>>

\* C21: for maxChunkSize > overlap >= 0 chunkText terminates and returns
\* chunks of at most maxChunkSize characters that start at 0, s, 2s, ...
\* with s = maxChunkSize - overlap and together cover the text (no chunk
\* for an empty text); with overlap >= maxChunkSize a call on a text that
\* is not empty never returns.
C21_ChunkText ==
  /\ [](ChunkReturned /\ call.overlap < call.maxChunkSize => ChunksAsClaimed)
  /\ (call.op = "chunkText" /\ call.overlap < call.maxChunkSize) ~> ChunkReturned
  /\ []((call.op = "chunkText" /\ call.overlap >= call.maxChunkSize /\ call.text # <<>>)
          => ~ChunkReturned)

\* A text cut into three chunks that overlap.
C21_Witness ==
  /\ ChunkReturned
  /\ call.overlap > 0 /\ call.overlap < call.maxChunkSize
  /\ Len(ret.value) >= 3

\* ---- OcrService.cleanText ----

\* The characters of an extracted text: a letter, a period, the space and
\* the newline, and one character outside \x20-\x7E (an accented letter, a
\* dash, a control character).
Whitespace == {" ", "\n"}
Printable == {"a", ".", " "}
RawChars == Printable \cup {"\n", "~~"}

\* The length of the run of characters of S that str starts with.
RECURSIVE RunLength(_, _)
RunLength(str, S) ==
  IF str = <<>> \/ Head(str) \notin S THEN 0 ELSE 1 + RunLength(Tail(str), S)

\* str.replace(/[S]{min,}/g, with)
RECURSIVE ReplaceRuns(_, _, _, _)
ReplaceRuns(str, S, min, with) ==
  IF str = <<>> THEN <<>>
  ELSE LET n == RunLength(str, S)
       IN  IF n >= min THEN with \o ReplaceRuns(SubSeq(str, n + 1, Len(str)), S, min, with)
           ELSE IF n > 0 THEN SubSeq(str, 1, n)
                                \o ReplaceRuns(SubSeq(str, n + 1, Len(str)), S, min, with)
           ELSE <<Head(str)>> \o ReplaceRuns(Tail(str), S, min, with)

\* text.replace(/\s+/g, ' ').replace(/[^\x20-\x7E\n]/g, '')
\*     .replace(/\.{3,}/g, '...').replace(/\n{3,}/g, '\n\n').trim()
CleanText(text) ==
  Trim(ReplaceRuns(
         ReplaceRuns(
           SelectSeq(ReplaceRuns(text, Whitespace, 1, <<" ">>),
                     LAMBDA c : c \in Printable \cup {"\n"}),
           {"."}, 3, Ellipsis),
         {"\n"}, 3, <<"\n", "\n">>))

InitClean ==
  /\ files = [d \in {"d1"} |-> [readable |-> FALSE, scanned |-> FALSE, pages |-> <<>>]]
  /\ docs = [d \in {"d1"} |-> NewDoc]
  /\ content = {}
  /\ Idle
  /\ call \in {[op |-> "cleanText", text |-> t] : t \in SeqsUpTo(RawChars, MaxRawLen)}
  /\ ret = NoRet
  /\ local = NoLocal

\* this.cleanText(rawText)
Clean ==
  /\ call.op = "cleanText" /\ ret = NoRet
  /\ ret' = [op |-> "cleanText", value |-> CleanText(call.text)]
  /\ SearchFrame

SpecClean == InitClean /\ [][Clean]_vars

\* C22: the output of cleanText has no two adjacent whitespace characters,
\* no character outside printable ASCII, no run of four or more periods and
\* no whitespace at either end, and cleaning it again changes nothing.
C22_CleanTextNormalForm ==
  ret.op = "cleanText" =>
    LET out == ret.value
    IN  /\ \A i \in 1..(Len(out) - 1) : ~(out[i] \in Whitespace /\ out[i + 1] \in Whitespace)
        /\ \A i \in 1..Len(out) : out[i] \in Printable
        /\ \A i \in 1..(Len(out) - 3) : \E j \in i..(i + 3) : out[j] # "."
        /\ out # <<>> => out[1] \notin Whitespace /\ out[Len(out)] \notin Whitespace
        /\ CleanText(out) = out

\* ---- the claims about the process endpoint and the queue ----

\* The job an addJob call hands back: the last of the queue it leaves.
NewestJob(q) == q[Len(q)]

\* What every process request for an existing document does to the queue.
AddsOneJob(d) ==
  /\ Len(queue') = Len(queue) + 1
  /\ \A i \in 1..Len(queue) : queue'[i] = queue[i]
  /\ NewestJob(queue').documentId = d
  /\ NewestJob(queue').id = jobIdCounter + 1
  /\ NewestJob(queue').result = NoResult /\ ~NewestJob(queue').error

\* C23, as stated: a process request for an unknown id throws and adds no
\* job; a request for an existing document adds exactly one job and
\* returns it with status 'waiting' and progress 0.
C23_EnqueueReturnsWaiting ==
  [][/\ \A d \in Docs : EnqueueUnknown(d) => queue' = queue /\ ret'.outcome = "thrown"
     /\ \A d \in DOMAIN docs :
          Enqueue(MaxHandlers, MaxJobs, d) =>
            /\ AddsOneJob(d)
            /\ NewestJob(queue').status = "waiting"
            /\ NewestJob(queue').progress = 0]_vars

\* C23, amended: the job is created 'waiting' with progress 0, and that
\* is how it is returned while the worker loop is busy; when the loop is
\* idle the job is started before addJob returns and is returned 'active'
\* with progress 10.
C23_EnqueueAddsOneJob ==
  [][/\ \A d \in Docs : EnqueueUnknown(d) => queue' = queue /\ ret'.outcome = "thrown"
     /\ \A d \in DOMAIN docs :
          Enqueue(MaxHandlers, MaxJobs, d) =>
            /\ AddsOneJob(d)
            /\ qIsProcessing =>
                  NewestJob(queue').status = "waiting" /\ NewestJob(queue').progress = 0
            /\ ~qIsProcessing =>
                  NewestJob(queue').status = "active" /\ NewestJob(queue').progress = 10]_vars

\* A second job for a document whose first job is active and whose status
\* is PROCESSING, after a request for an unknown id was turned down.
C23_Witness ==
  /\ ret.op = "process" /\ ret.outcome = "thrown"
  /\ Len(queue) = 2
  /\ queue[1].documentId = queue[2].documentId
  /\ queue[1].status = "active" /\ queue[2].status = "waiting"
  /\ docs[queue[2].documentId].ocrStatus = PROCESSING

\* C24: an embedding failure never fails a page: when a run returns, every
\* page whose embedding failed has its row, stored with a null embedding,
\* it is counted as processed and not as failed, and a file whose pages
\* fail in no other way ends COMPLETED like a file whose embeddings all
\* succeeded.
C24_EmbeddingFailureKeepsPage ==
  \A e \in Returned :
    LET f == files[e.doc]
        emb == PagesOfKind(f, {"embFail"})
    IN  ~ExtractThrows(f) =>
          /\ \A i \in emb :
               \E row \in RowsOf(content, e.doc) : row.pageNumber = i /\ ~row.embedding
          /\ e.result.failedPages <= Cardinality(PagesOfKind(f, {"badSave", "badIndex"}))
          /\ e.result.processedPages >= Cardinality(PagesOfKind(f, GoodKinds))
          /\ PagesOfKind(f, GoodKinds) = 1..Len(f.pages) =>
               /\ docs[e.doc].ocrStatus = COMPLETED
               /\ e.result.status = COMPLETED

\* A run returns COMPLETED for a file of two pages, the first of which
\* could not be embedded.
C24_Witness ==
  \E e \in Returned :
    /\ files[e.doc].pages = <<"embFail", "ok">>
    /\ e.result.processedPages = 2
    /\ docs[e.doc].ocrStatus = COMPLETED
    /\ \E row \in RowsOf(content, e.doc) : row.pageNumber = 1 /\ ~row.embedding

\* A call of processPendingDocuments by handler b is in progress.
BatchRunning(b) == batch[b].pc \in {"find", "run"}

\* C25: at most one batch run (a call of processPendingDocuments by the
\* scheduled task or by the startup hook) is in progress at any time,
\* isProcessing is true while one is, and it is true only while a batch
\* handler is at work.
C25_OneBatchRun ==
  /\ Cardinality({b \in BatchCallers : BatchRunning(b)}) <= 1
  /\ (\E b \in BatchCallers : BatchRunning(b)) => oIsProcessing
  /\ oIsProcessing => \E b \in BatchCallers : batch[b].pc \notin {"idle", "finished"}

\* ---- SyncService ----

SyncFrame ==
  UNCHANGED <<files, docs, content, call, local, QueueVars, BatchVars, RepVars,
              Counters, run, lastWrites, lastRets, lastIns>>

InitSync ==
  /\ files = [d \in {"d1"} |-> [readable |-> FALSE, scanned |-> FALSE, pages |-> <<>>]]
  /\ docs = [d \in {"d1"} |-> NewDoc]
  /\ content = {}
  /\ Idle
  /\ call = NoCall
  /\ ret = NoRet
  /\ local = NoLocal

SyncRunning(c) == sync.runs[c].pc = "running"

\* The run of caller c starts on `pages` pages of appeals.
SyncStarted(c, pages) ==
  [sync EXCEPT !.runs[c] = [pc |-> "running", pages |-> pages], !.started = @ + 1]

\* syncAll, up to its first await: it throws while isSyncing is set and
\* sets the flag otherwise
SyncAll(pages) ==
  /\ sync.started < MaxSyncs
  /\ IF sync.isSyncing
     THEN /\ sync' = [sync EXCEPT !.started = @ + 1]
          /\ ret' = [op |-> "syncAll", outcome |-> "thrown"]
     ELSE /\ sync' = [SyncStarted("full", pages) EXCEPT !.isSyncing = TRUE]
          /\ ret' = NoRet
  /\ SyncFrame

\* syncIncremental, called by POST sync/incremental or by
\* handleScheduledSync, up to its first await
SyncIncremental(c, pages) ==
  /\ c \in {"incremental", "scheduled"}
  /\ sync.started < MaxSyncs
  /\ ~SyncRunning(c)
  /\ sync' = SyncStarted(c, pages)
  /\ ret' = NoRet
  /\ SyncFrame

\* one page of appeals is fetched and synced
SyncPage(c) ==
  /\ SyncRunning(c)
  /\ sync.runs[c].pages > 0
  /\ sync' = [sync EXCEPT !.runs[c].pages = @ - 1]
  /\ ret' = NoRet
  /\ SyncFrame

\* the run returns its result; the finally block of syncAll clears the flag
SyncReturn(c) ==
  /\ SyncRunning(c)
  /\ sync.runs[c].pages = 0
  /\ sync' = [sync EXCEPT !.runs[c] = NoSyncRun,
                           !.isSyncing = IF c = "full" THEN FALSE ELSE @]
  /\ ret' = [op |-> IF c = "full" THEN "syncAll" ELSE "syncIncremental",
             outcome |-> "returned"]
  /\ SyncFrame

\* getSyncStatus()
GetSyncStatus ==
  /\ ret' = [op |-> "getSyncStatus", isSyncing |-> sync.isSyncing]
  /\ UNCHANGED sync
  /\ SyncFrame

NextSync ==
  \/ \E n \in 0..MaxSyncPages : SyncAll(n)
  \/ \E c \in SyncCallers, n \in 0..MaxSyncPages : SyncIncremental(c, n)
  \/ \E c \in SyncCallers : SyncPage(c)
  \/ \E c \in SyncCallers : SyncReturn(c)
  \/ GetSyncStatus

SpecSync == InitSync /\ [][NextSync]_vars

\* C26: no two sync runs (syncAll or syncIncremental, started by a request
\* or by the daily cron task) are in progress at the same time, and the
\* isSyncing that getSyncStatus reports is true whenever a run is in
\* progress.
C26_OneSyncRun ==
  /\ Cardinality({c \in SyncCallers : SyncRunning(c)}) <= 1
  /\ (\E c \in SyncCallers : SyncRunning(c)) =>
        /\ sync.isSyncing
        /\ ret.op = "getSyncStatus" => ret.isSyncing

\* The job with this id is in the queue and still waiting or active.
Unsettled(id) ==
  \E i \in 1..Len(queue) : queue[i].id = id /\ queue[i].status \in {"waiting", "active"}

\* C27: every job added by addJob eventually is completed or failed, if
\* every processDocument call of the worker settles: no job stays waiting
\* or active forever, whether the loop was idle or busy when it was added.
C27_EveryJobSettles ==
  \A id \in 1..MaxJobs :
    Unsettled(id) ~> (jobIdCounter >= id /\ ~Unsettled(id))

\* The job added behind an active one has been run to completion.
C27_Witness ==
  /\ lastFinished = 2
  /\ \E i \in 1..Len(queue) : queue[i].id = 2 /\ queue[i].status = "completed"

RowExists(d, n) == \E row \in content : row.documentId = d /\ row.pageNumber = n

\* No request to reprocess and no store outage so far.
Undisturbed ==
  /\ repCount = 0 /\ outages = 0
  /\ \A c \in RepCallers : rep[c].pc = "idle"

Activated(j, k) ==
  /\ j.status = "waiting" /\ k.status = "active"
  /\ k = [j EXCEPT !.status = "active", !.started = TRUE, !.progress = 10]
  /\ run'["queue"].pc # "idle" /\ run'["queue"].doc = j.documentId
  /\ lastStarted' = j.id

\* The worker loop is handed the outcome of job j: processJob after its
\* await.
Finished(j, k) ==
  /\ j.status = "active" /\ k.status \in {"completed", "failed"}
  /\ k.id = j.id /\ k.documentId = j.documentId /\ k.started = j.started
  /\ run["queue"].pc # "idle" /\ run["queue"].doc = j.documentId
  /\ lastFinished' = j.id
  /\ \E ev \in lastRets' : ev.by = "queue"

JobWellFormed(j) ==
  /\ j.progress \in 0..100
  /\ j.status = "waiting" => j.progress = 0
  /\ j.status = "completed" <=> j.progress = 100
  /\ j.started <=> j.status # "waiting"
  /\ j.completed <=> j.status \in {"completed", "failed"}

\* C29: a job only moves waiting -> active -> completed or failed, each
\* move made by the worker loop (taking the job up, or being handed the
\* outcome of its processDocument call), and a completed or failed job
\* never changes; progress is 0 while waiting and 100 exactly when
\* completed, within 0..100; startedAt is set exactly from activation on
\* and completedAt exactly when the job is completed or failed.  (Jobs that
\* clearCompleted takes out of the queue are gone, not changed.)
C29_JobLifecycle ==
  [][/\ \A i \in 1..Len(queue), k \in 1..Len(queue') :
          queue'[k].id = queue[i].id =>
            \/ queue'[k] = queue[i]
            \/ Activated(queue[i], queue'[k])
            \/ Finished(queue[i], queue'[k])
     /\ \A i \in 1..Len(queue') : JobWellFormed(queue'[i])]_vars

\* One job completed, one failed (progress left at 10) and one active.
C29_Witness ==
  /\ \E i \in 1..Len(queue) : queue[i].status = "completed"
  /\ \E i \in 1..Len(queue) : queue[i].status = "failed" /\ queue[i].progress = 10
  /\ \E i \in 1..Len(queue) : queue[i].status = "active"

\* The step hands job j (k after the step) a result that mirrors what its
\* run has just written to the document.
MirrorsRun(j, k) ==
  /\ ~k.error
  /\ k.result.status \in {COMPLETED, FAILED, MANUAL_REVIEW}
  /\ docs'[j.documentId].ocrStatus = k.result.status
  /\ \E w \in lastWrites' :
       /\ w.by = "queue" /\ w.doc = j.documentId
       /\ w.kind = "end" /\ w.to = k.result.status
  /\ k.result.totalPages = Len(run["queue"].pages)
  /\ k.result.processedPages = run["queue"].processedPages
  /\ k.result.failedPages = run["queue"].failedPages

\* The step fails job j because its processDocument call rejected.
FailsOnReject(j, k) ==
  /\ k.error /\ k.result = NoResult
  /\ \E ev \in lastRets' :
       ev.by = "queue" /\ ev.doc = j.documentId /\ ev.outcome = "rejected"

\* C30: a job becomes 'completed' with the status that its run writes to
\* the document (COMPLETED, FAILED or MANUAL_REVIEW) and with the page
\* counts of the run, and becomes 'failed', with error set and no result,
\* only when processDocument rejects; the result and error of a settled
\* job stay as they were set.  So a document whose extraction failed
\* leaves a 'completed' job, which getStats does not count as failed.
C30_JobMirrorsDocument ==
  [][\A i \in 1..Len(queue), k \in 1..Len(queue') :
       (queue'[k].id = queue[i].id /\ queue'[k] # queue[i]) =>
         /\ queue'[k].status = "completed" => MirrorsRun(queue[i], queue'[k])
         /\ queue'[k].status = "failed" => FailsOnReject(queue[i], queue'[k])
         /\ queue'[k].status = "active" =>
              ~queue'[k].error /\ queue'[k].result = NoResult]_vars

\* The extraction of the document has just failed (status FAILED written,
\* no page processed): its job is 'completed' and getStats counts no
\* failed job.
C30_Witness ==
  /\ \E i \in 1..Len(queue) :
       /\ queue[i].id = lastFinished
       /\ queue[i].status = "completed"
       /\ queue[i].result.status = FAILED
       /\ queue[i].result.processedPages = 0
       /\ docs[queue[i].documentId].ocrStatus = FAILED
  /\ GetStats(queue)["failed"] = 0
  /\ GetStats(queue)["completed"] >= 1

====
